---------------------------- MODULE Spec2Model ----------------------------
(***************************************************************************)
(* rework-breakpoints: the breakpoint registry, the range resolver and the  *)
(* media rewriter, as a state machine over the module's locals              *)
(* (mediaRules, breakpoints, options) and the stylesheets handed to the     *)
(* plugin.  Strings are TLA+ strings, read character by character with      *)
(* SubSeq; numbers are fixed-point integers scaled by Scale, so that the    *)
(* 0.0001 step of em/rem breakpoints is one unit.                           *)
(***************************************************************************)
EXTENDS Integers, Sequences, FiniteSets, TLC

VARIABLES
  trees,        \* the stylesheets passed to the plugin so far (style.rules of each), as they are now
  inputs,       \* the same stylesheets as they were when passed (history)
  mediaRules,   \* module local: references <<stylesheet, rule id>> to the collected media rules
  breakpoints,  \* module local: the registered breakpoints
  options,      \* module local: option name -> boolean
  mediaMap,     \* the `media` object built by the last apply()
  thrown        \* the message of the error the last call threw, or NoError

vars == <<trees, inputs, mediaRules, breakpoints, options, mediaMap, thrown>>

NoError == "<no error>"
Undefined == "<undefined>"
\* NaN, kept apart from every number the model computes
NaN == 0 - 2000000000

-----------------------------------------------------------------------------
(* Characters and strings *)

\* the characters i..j of s, as many of them as s has (String.prototype.substring)
Sub(s, i, j) ==
  LET to == IF j > Len(s) THEN Len(s) ELSE j
  IN IF i < 1 \/ i > to THEN "" ELSE SubSeq(s, i, to)

Ch(s, i) == Sub(s, i, i)

UpperCase == "ABCDEFGHIJKLMNOPQRSTUVWXYZ"
LowerCase == "abcdefghijklmnopqrstuvwxyz"
Digits == "0123456789"

UpperSet == { Ch(UpperCase, i) : i \in 1..26 }
DigitSet == { Ch(Digits, i) : i \in 1..10 }
LowerOf == [c \in UpperSet |-> Ch(LowerCase, CHOOSE i \in 1..26 : Ch(UpperCase, i) = c)]
ValueOf == [c \in DigitSet |-> (CHOOSE i \in 1..10 : Ch(Digits, i) = c) - 1]

LowerChar(c) == IF c \in UpperSet THEN LowerOf[c] ELSE c

RECURSIVE LowerFrom(_, _)
LowerFrom(s, i) == IF i > Len(s) THEN "" ELSE LowerChar(Ch(s, i)) \o LowerFrom(s, i + 1)

\* String.prototype.toLowerCase, on the letters A to Z
toLowerCase(s) ==
  IF \E i \in 1..Len(s) : Ch(s, i) \in UpperSet THEN LowerFrom(s, 1) ELSE s

\* \s of a regular expression (the members a stylesheet can hold)
IsSpace(c) == c \in {" ", "\t", "\n"}
IsDigit(c) == c \in DigitSet
DigitVal(c) == ValueOf[c]
\* [0-9\.]
IsNumChar(c) == IsDigit(c) \/ c = "."

StartsWith(s, p) == Len(s) >= Len(p) /\ Sub(s, 1, Len(p)) = p
\* s has p at position i
HasAt(s, i, p) == i >= 1 /\ i + Len(p) - 1 <= Len(s) /\ Sub(s, i, i + Len(p) - 1) = p
Contains(s, p) == \E i \in 1..Len(s) : HasAt(s, i, p)
Drop(s, n) == Sub(s, n + 1, Len(s))

\* the unit px|em|rem at position i of s, or "" when there is none
UnitAt(s, i) ==
  IF HasAt(s, i, "px") THEN "px"
  ELSE IF HasAt(s, i, "em") THEN "em"
  ELSE IF HasAt(s, i, "rem") THEN "rem"
  ELSE ""

\* the end of the longest run of characters satisfying Test that starts at i (i-1 when empty)
RECURSIVE NumRunEnd(_, _)
NumRunEnd(s, i) == IF i <= Len(s) /\ IsNumChar(Ch(s, i)) THEN NumRunEnd(s, i + 1) ELSE i - 1
RECURSIVE DigitRunEnd(_, _)
DigitRunEnd(s, i) == IF i <= Len(s) /\ IsDigit(Ch(s, i)) THEN DigitRunEnd(s, i + 1) ELSE i - 1
RECURSIVE SpaceRunEnd(_, _)
SpaceRunEnd(s, i) == IF i <= Len(s) /\ IsSpace(Ch(s, i)) THEN SpaceRunEnd(s, i + 1) ELSE i - 1
RECURSIVE WordEnd(_, _)
WordEnd(s, i) == IF i <= Len(s) /\ ~IsSpace(Ch(s, i)) THEN WordEnd(s, i + 1) ELSE i - 1

\* String.prototype.split(/\s+/)
RECURSIVE split(_)
split(s) ==
  LET e == WordEnd(s, 1)
      part == Sub(s, 1, e)
  IN IF e = Len(s) THEN <<part>>
     ELSE <<part>> \o split(Drop(s, SpaceRunEnd(s, e + 1)))

-----------------------------------------------------------------------------
(* Numbers: a JavaScript number n is held as n * Scale (or NaN) *)

Scale == 10000

RECURSIVE DigitsValue(_)
DigitsValue(s) == IF s = "" THEN 0 ELSE DigitsValue(Sub(s, 1, Len(s) - 1)) * 10 + DigitVal(Ch(s, Len(s)))

RECURSIVE Pow10(_)
Pow10(n) == IF n = 0 THEN 1 ELSE 10 * Pow10(n - 1)

\* parseFloat on a string of digits and dots: the longest prefix <digits>[.<digits>]
parseFloat(s) ==
  LET ie == DigitRunEnd(s, 1)
      hasDot == HasAt(s, ie + 1, ".")
      fe == IF hasDot THEN DigitRunEnd(s, ie + 2) ELSE ie
      int == Sub(s, 1, ie)
      frac == IF hasDot THEN Sub(s, ie + 2, fe) ELSE ""
      kept == Sub(frac, 1, 4)
  IN IF int = "" /\ frac = "" THEN NaN
     ELSE DigitsValue(int) * Scale + DigitsValue(kept) * Pow10(4 - Len(kept))

\* parseInt on a string: the longest prefix of digits
parseInt(s) ==
  LET ie == DigitRunEnd(s, 1)
  IN IF ie = 0 THEN NaN ELSE DigitsValue(Sub(s, 1, ie))

RECURSIVE NatToString(_)
NatToString(n) ==
  IF n < 10 THEN Ch(Digits, n + 1)
  ELSE NatToString(n \div 10) \o Ch(Digits, (n % 10) + 1)

RECURSIVE FracToString(_, _)
\* the digits of f / 10^width without the trailing zeros
FracToString(f, width) ==
  IF f = 0 THEN ""
  ELSE IF f % 10 = 0 THEN FracToString(f \div 10, width - 1)
  ELSE LET d == NatToString(f)
           RECURSIVE Pad(_)
           Pad(k) == IF k <= 0 THEN "" ELSE "0" \o Pad(k - 1)
       IN Pad(width - Len(d)) \o d

\* Number -> String of a scaled number (the conversion `number + string` makes)
NumToString(v) ==
  IF v = NaN THEN "NaN"
  ELSE LET a == IF v < 0 THEN -v ELSE v
           f == FracToString(a % Scale, 4)
       IN (IF v < 0 THEN "-" ELSE "") \o NatToString(a \div Scale)
          \o (IF f = "" THEN "" ELSE "." \o f)

\* Number -> String of a plain integer
IntToString(n) == IF n = NaN THEN "NaN" ELSE (IF n < 0 THEN "-" ELSE "") \o NatToString(IF n < 0 THEN -n ELSE n)

-----------------------------------------------------------------------------
(* Declaration classifier (isBreakpointsOption .. getTypeAndPoint) *)

\* /^(var-)?breakpoints-/
isBreakpointsOption(property) ==
  StartsWith(property, "breakpoints-") \/ StartsWith(property, "var-breakpoints-")

\* /^(var-)?breakpoint-/
isBreakpoint(property) ==
  StartsWith(property, "breakpoint-") \/ StartsWith(property, "var-breakpoint-")

getOptionName(property) ==
  IF StartsWith(property, "var-breakpoints-") THEN Drop(property, Len("var-breakpoints-"))
  ELSE IF StartsWith(property, "breakpoints-") THEN Drop(property, Len("breakpoints-"))
  ELSE property

getBreakpointName(property) ==
  IF StartsWith(property, "var-breakpoint-") THEN Drop(property, Len("var-breakpoint-"))
  ELSE IF StartsWith(property, "breakpoint-") THEN Drop(property, Len("breakpoint-"))
  ELSE property

\* /^(min|max)\s+[0-9\.]+(px|em|rem)$/
hasSpecialSyntax(value) ==
  /\ StartsWith(value, "min") \/ StartsWith(value, "max")
  /\ LET se == SpaceRunEnd(value, 4)
          ne == NumRunEnd(value, se + 1)
          unit == UnitAt(value, ne + 1)
      IN /\ se >= 4
         /\ ne > se
         /\ unit # ""
         /\ ne + Len(unit) = Len(value)

\* /(max|min)/
isType(str) == Contains(str, "max") \/ Contains(str, "min")

\* /[0-9]+(px|em|rem)/
isPoint(str) == \E i \in 1..Len(str) : IsDigit(Ch(str, i)) /\ UnitAt(str, i + 1) # ""

\* /[0-9]+px/, the point of lib/breakpoints.js
isPointPx(str) == \E i \in 1..Len(str) : IsDigit(Ch(str, i)) /\ HasAt(str, i + 1, "px")

FormatError == "not in the format: <type> <breakpoint in px>, e.g. \"min 1000px\" or \"max 340px\""
MissingError == "missing type or point, i.e. \"max\" or \"min\" and e.g. \"1000px\" respectively"

\* What getTypeAndPoint hands to its callback first: the callback throws on an error,
\* so a wrong number of parts ends the call before the second test is made.
getTypeAndPoint(value) ==
  LET parts == split(value)
  IN IF Len(parts) # 2 THEN [err |-> FormatError]
     ELSE IF isType(parts[1]) /\ isPoint(parts[2])
       THEN [err |-> NoError, type |-> parts[1], point |-> parts[2]]
     ELSE IF isType(parts[2]) /\ isPoint(parts[1])
       THEN [err |-> NoError, type |-> parts[2], point |-> parts[1]]
     ELSE [err |-> MissingError]

-----------------------------------------------------------------------------
(* Breakpoint registry (option, set, setCustom and their checks).  The run's  *)
(* locals travel as one record st: mediaRules, breakpoints, options, and err, *)
(* the message of the error thrown so far (NoError while none is).            *)

Throw(st, message) == [st EXCEPT !.err = message]

\* obj[key] of a JavaScript object held as a record
Get(obj, key) == IF key \in DOMAIN obj THEN obj[key] ELSE Undefined

hasBreakpointWithName(bps, name) ==
  \E i \in 1..Len(bps) : bps[i].name = name

hasBreakpointWithTypeAndPoint(bps, type, point) ==
  \E i \in 1..Len(bps) : bps[i].type = type /\ Get(bps[i], bps[i].type) = point

\* faulty variant: the value compared as written, without toLowerCase()
optionValueAsWritten(value) == value \in {"1", "true", "yes"}

\* ['1', 'true', 'yes'].indexOf(value.toLowerCase()) > -1
optionValue(value) == toLowerCase(value) \in {"1", "true", "yes"}

option(st, property, value) ==
  [st EXCEPT !.options = (getOptionName(property) :> optionValue(value)) @@ st.options]

\* /([0-9\.]+)(px|em|rem)/.exec(point): the leftmost run of [0-9.] a unit follows
RECURSIVE execPoint(_, _)
execPoint(point, i) ==
  IF i > Len(point) THEN [found |-> FALSE]
  ELSE IF ~IsNumChar(Ch(point, i)) THEN execPoint(point, i + 1)
  ELSE LET e == NumRunEnd(point, i)
           unit == UnitAt(point, e + 1)
       IN IF unit # "" THEN [found |-> TRUE, num |-> Sub(point, i, e), unit |-> unit]
          ELSE execPoint(point, e + 1)

NameError(name) == "Breakpoint with name: " \o name \o " is already defined!"
PointError(type, point) == "A breakpoint at: " \o type \o " " \o point \o " is already defined!"

\* set() once name and type are in lower case; match is what exec returned
setMatched(st, name, type, point, match) ==
  IF hasBreakpointWithName(st.breakpoints, name) THEN Throw(st, NameError(name))
  ELSE IF hasBreakpointWithTypeAndPoint(st.breakpoints, type, point)
    THEN Throw(st, PointError(type, point))
  ELSE IF ~match.found THEN Throw(st, "TypeError: Cannot read property '1' of null")
  ELSE [st EXCEPT !.breakpoints =
          Append(@, [name |-> name, type |-> type, value |-> parseFloat(match.num),
                     unit |-> match.unit,
                     factor |-> IF match.unit = "px" THEN Scale ELSE 1])]

set(st, name0, type0, point) ==
  setMatched(st, toLowerCase(name0), toLowerCase(type0), point, execPoint(point, 1))

\* setCustom() once the name is in lower case
setCustomNamed(st, name, value) ==
  IF hasBreakpointWithName(st.breakpoints, name) THEN Throw(st, NameError(name))
  ELSE [st EXCEPT !.breakpoints = Append(@, [name |-> name, type |-> "custom", value |-> value])]

setCustom(st, name0, value) == setCustomNamed(st, toLowerCase(name0), value)

ParseError(name, message) == "Error in breakpoint \"" \o name \o "\": " \o message

\* the callback breakpoint() hands to getTypeAndPoint
breakpointCallback(st, name, result) ==
  IF result.err # NoError THEN Throw(st, ParseError(name, result.err))
  ELSE set(st, name, result.type, result.point)

breakpointNamed(st, name, value) ==
  IF hasSpecialSyntax(value) THEN breakpointCallback(st, name, getTypeAndPoint(value))
  ELSE setCustom(st, name, value)

breakpoint(st, property, value) == breakpointNamed(st, getBreakpointName(property), value)

-----------------------------------------------------------------------------
(* Tree walker (rules, visit, media) *)

RemoveAt(seq, i) == SubSeq(seq, 1, i - 1) \o SubSeq(seq, i + 1, Len(seq))

\* visit(declarations) from index i on; a throwing declaration stays in the list
RECURSIVE visitFrom(_, _, _)
RECURSIVE visitRemove(_, _, _)

\* faulty variant: declarations.splice(i, 1) without the step back, so the entry that
\* moves into place i is passed over
visitRemoveSkipping(declarations, i, st1) ==
  IF st1.err # NoError THEN [declarations |-> declarations, st |-> st1]
  ELSE visitFrom(RemoveAt(declarations, i), i + 1, st1)

\* declarations.splice(i--, 1) after option() or breakpoint() left the locals st1
visitRemove(declarations, i, st1) ==
  IF st1.err # NoError THEN [declarations |-> declarations, st |-> st1]
  ELSE visitFrom(RemoveAt(declarations, i), i, st1)

visitFrom(declarations, i, st) ==
  IF i > Len(declarations) THEN [declarations |-> declarations, st |-> st]
  ELSE IF isBreakpointsOption(declarations[i].property)
    THEN visitRemove(declarations, i,
                     option(st, declarations[i].property, declarations[i].value))
  ELSE IF isBreakpoint(declarations[i].property)
    THEN visitRemove(declarations, i,
                     breakpoint(st, declarations[i].property, declarations[i].value))
  ELSE visitFrom(declarations, i + 1, st)

visit(declarations, st) == visitFrom(declarations, 1, st)

\* media(rule): the rule is kept by reference
media(st, ref) == [st EXCEPT !.mediaRules = Append(@, ref)]

HasRules(rule) == "rules" \in DOMAIN rule
HasMedia(rule) == "media" \in DOMAIN rule /\ rule.media # ""
HasDeclarations(rule) == "declarations" \in DOMAIN rule

\* rules(arr) of stylesheet tid, from index on: children, then media, then declarations
RECURSIVE rulesFrom(_, _, _, _)
RECURSIVE rulesChildren(_, _, _, _)
RECURSIVE rulesMedia(_, _, _, _, _)
RECURSIVE rulesVisit(_, _, _, _, _)
RECURSIVE rulesNext(_, _, _, _, _)

\* the forEach moves on to the next rule; visited is what visit() left
rulesNext(arr, index, rule, visited, tid) ==
  rulesFrom([arr EXCEPT ![index] = [rule EXCEPT !.declarations = visited.declarations]],
            index + 1, visited.st, tid)

\* if (rule.declarations) visit(rule.declarations)
rulesVisit(arr, index, rule, st, tid) ==
  IF st.err = NoError /\ HasDeclarations(rule)
    THEN rulesNext(arr, index, rule, visit(rule.declarations, st), tid)
  ELSE rulesFrom([arr EXCEPT ![index] = rule], index + 1, st, tid)

\* if (rule.media) media(rule); sub is what rules(rule.rules) left
rulesMedia(arr, index, rule, sub, tid) ==
  rulesVisit(arr, index, IF HasRules(rule) THEN [rule EXCEPT !.rules = sub.arr] ELSE rule,
             IF sub.st.err = NoError /\ HasMedia(rule) THEN media(sub.st, <<tid, rule.id>>)
             ELSE sub.st,
             tid)

\* if (rule.rules) rules(rule.rules)
rulesChildren(arr, index, st, tid) ==
  rulesMedia(arr, index, arr[index],
             IF HasRules(arr[index]) THEN rulesFrom(arr[index].rules, 1, st, tid)
             ELSE [arr |-> <<>>, st |-> st],
             tid)

rulesFrom(arr, index, st, tid) ==
  IF index > Len(arr) \/ st.err # NoError THEN [arr |-> arr, st |-> st]
  ELSE rulesChildren(arr, index, st, tid)

rules(arr, st, tid) == rulesFrom(arr, 1, st, tid)

-----------------------------------------------------------------------------
(* Range resolver (apply, getValue).  The `media` object is a sequence of    *)
(* [name, value] entries in insertion order, the order Object.keys lists     *)
(* its names in (no name of the model is an array index).                    *)

HasKey(m, name) == \E i \in 1..Len(m) : m[i].name = name
KeyIndex(m, name) == CHOOSE i \in 1..Len(m) : m[i].name = name
GetKey(m, name) == IF HasKey(m, name) THEN m[KeyIndex(m, name)].value ELSE Undefined
\* media[name] = value
Put(m, name, value) ==
  IF HasKey(m, name) THEN [m EXCEPT ![KeyIndex(m, name)].value = value]
  ELSE Append(m, [name |-> name, value |-> value])
\* media[name] += text
PutMore(m, name, text) == Put(m, name, GetKey(m, name) \o text)

Plus(v, d) == IF v = NaN THEN NaN ELSE v + d

\* faulty variant: the neighbour's point itself, without the step of one factor
getValueOfPoint(bp, factorMultiplier) == NumToString(bp.value) \o bp.unit

getValue(bp, factorMultiplier) ==
  NumToString(Plus(bp.value, factorMultiplier * bp.factor)) \o bp.unit

RECURSIVE Filter(_, _)
Filter(bps, type) ==
  IF bps = <<>> THEN <<>>
  ELSE (IF Head(bps).type = type THEN <<Head(bps)>> ELSE <<>>) \o Filter(Tail(bps), type)

\* a.value - b.value > 0: the comparator's answer that moves a behind b
ComesAfter(a, b) == a.value # NaN /\ b.value # NaN /\ a.value - b.value > 0

\* points.sort(function (a, b) { return a.value - b.value; }): a stable sort
RECURSIVE Insert(_, _)
Insert(sorted, bp) ==
  IF sorted = <<>> THEN <<bp>>
  ELSE IF ComesAfter(sorted[Len(sorted)], bp)
    THEN Append(Insert(SubSeq(sorted, 1, Len(sorted) - 1), bp), sorted[Len(sorted)])
  ELSE Append(sorted, bp)

\* faulty variant: the points stay in the order of their declarations
sortByDeclaration(points) == points

RECURSIVE sortByValue(_)
sortByValue(points) ==
  IF points = <<>> THEN <<>>
  ELSE Insert(sortByValue(SubSeq(points, 1, Len(points) - 1)), points[Len(points)])

\* the media type every generated query starts with
MediaType == "only screen"

\* options.device ? '-device-width' : '-width'
queryOf(opts) == IF "device" \in DOMAIN opts /\ opts["device"] THEN "-device-width" ELSE "-width"

\* one round of the max loop: lower is the bound after the point below (read when
\* i > 0 only), upper the breakpoint's own point
maxRound(m, name, i, lower, upper) ==
  PutMore(IF i > 1
            THEN Put(Put(PutMore(Put(m, name, MediaType), name, lower),
                         name \o "-and-down", MediaType \o upper),
                     name \o "-and-up", MediaType \o lower)
          ELSE Put(m, name, MediaType),
          name, upper)

\* for (var i = 0; i < maxPoints.length; i++), i counted from 1
RECURSIVE maxLoop(_, _, _, _)
maxLoop(m, maxPoints, i, query) ==
  IF i > Len(maxPoints) THEN m
  ELSE maxLoop(maxRound(m, maxPoints[i].name, i,
                        " and (min" \o query \o ": " \o getValue(maxPoints[i - 1], 1) \o ")",
                        " and (max" \o query \o ": " \o getValue(maxPoints[i], 0) \o ")"),
               maxPoints, i + 1, query)

\* faulty variant: the two compound names of a min breakpoint exchanged
minRoundSwapped(m, name, last, lower, upper) ==
  IF last THEN PutMore(Put(m, name, MediaType), name, lower)
  ELSE Put(Put(PutMore(PutMore(Put(m, name, MediaType), name, lower), name, upper),
               name \o "-and-down", MediaType \o lower),
           name \o "-and-up", MediaType \o upper)

\* one round of the min loop: lower is the breakpoint's own point, upper the bound
\* before the point above (read when there is one only)
minRound(m, name, last, lower, upper) ==
  IF last THEN PutMore(Put(m, name, MediaType), name, lower)
  ELSE Put(Put(PutMore(PutMore(Put(m, name, MediaType), name, lower), name, upper),
               name \o "-and-up", MediaType \o lower),
           name \o "-and-down", MediaType \o upper)

\* for (var j = minPoints.length - 1; j >= 0; j--), j counted from 1
RECURSIVE minLoop(_, _, _, _)
minLoop(m, minPoints, j, query) ==
  IF j < 1 THEN m
  ELSE minLoop(minRound(m, minPoints[j].name, j = Len(minPoints),
                        " and (min" \o query \o ": " \o getValue(minPoints[j], 0) \o ")",
                        " and (max" \o query \o ": " \o getValue(minPoints[j + 1], -1) \o ")"),
               minPoints, j - 1, query)

\* breakpoints.forEach: a custom breakpoint resolves to its text
RECURSIVE customLoop(_, _, _)
customLoop(m, bps, i) ==
  IF i > Len(bps) THEN m
  ELSE customLoop(IF bps[i].type = "custom" THEN Put(m, bps[i].name, bps[i].value) ELSE m,
                  bps, i + 1)

\* the min loop over the sorted min breakpoints, from the last one down
minLoopOver(m, minPoints, query) == minLoop(m, minPoints, Len(minPoints), query)

\* the `media` object apply() builds
resolveWith(bps, query) ==
  customLoop(minLoopOver(maxLoop(<<>>, sortByValue(Filter(bps, "max")), 1, query),
                         sortByValue(Filter(bps, "min")), query),
             bps, 1)

resolve(bps, opts) == resolveWith(bps, queryOf(opts))

-----------------------------------------------------------------------------
(* Media rewriter: text.replace(new RegExp('(^|\\s)' + name + '(\\s|$)', 'ig'), *)
(* '$1' + value + '$2').  Names are letters, digits and hyphens, so the name  *)
(* is matched literally; lower is text in lower case (the i flag).            *)

\* where a match that starts at i ends and what its two groups hold, trying
\* ^ before \s for the first group and \s before $ for the second
matchAt(text, lower, i, name) ==
  LET n == Len(name)
      Try(from, g1) ==
        IF ~HasAt(lower, from, name) THEN [found |-> FALSE]
        ELSE IF from + n <= Len(text) /\ IsSpace(Ch(text, from + n))
          THEN [found |-> TRUE, g1 |-> g1, g2 |-> Ch(text, from + n), end |-> from + n]
        ELSE IF from + n = Len(text) + 1
          THEN [found |-> TRUE, g1 |-> g1, g2 |-> "", end |-> from + n - 1]
        ELSE [found |-> FALSE]
      atStart == IF i = 1 THEN Try(i, "") ELSE [found |-> FALSE]
  IN IF atStart.found THEN atStart
     ELSE IF i <= Len(text) /\ IsSpace(Ch(text, i)) THEN Try(i + 1, Ch(text, i))
     ELSE [found |-> FALSE]

\* the global replace: each search starts where the last match ended; the text
\* from `from` on is what no match has taken yet
RECURSIVE replaceFrom(_, _, _, _, _, _)
replaceFrom(text, lower, i, from, name, value) ==
  IF i > Len(text) THEN Sub(text, from, Len(text))
  ELSE LET mt == matchAt(text, lower, i, name)
       IN IF mt.found /\ mt.end >= i
            THEN Sub(text, from, i - 1) \o mt.g1 \o value \o mt.g2
                 \o replaceFrom(text, lower, mt.end + 1, mt.end + 1, name, value)
          ELSE replaceFrom(text, lower, i + 1, from, name, value)

replace(text, name, value) == replaceFrom(text, toLowerCase(text), 1, 1, name, value)

RECURSIVE replaceTimes(_, _, _, _)
replaceTimes(text, name, value, times) ==
  IF times = 0 THEN text ELSE replaceTimes(replace(text, name, value), name, value, times - 1)

\* Object.keys(media).forEach over one rule that mediaRules holds `times` times
RECURSIVE rewrite(_, _, _, _)
rewrite(text, m, k, times) ==
  IF k > Len(m) THEN text
  ELSE rewrite(replaceTimes(text, m[k].name, m[k].value, times), m, k + 1, times)

Count(refs, ref) == Cardinality({i \in 1..Len(refs) : refs[i] = ref})

\* the rules of stylesheet tid after the replacements made through mediaRules
rewriteRule(rule, times, m) ==
  IF times > 0 THEN [rule EXCEPT !.media = rewrite(@, m, 1, times)] ELSE rule

RECURSIVE rewriteRules(_, _, _, _)
rewriteRules(arr, tid, refs, m) ==
  [i \in 1..Len(arr) |->
    rewriteRule(IF HasRules(arr[i])
                  THEN [arr[i] EXCEPT !.rules = rewriteRules(@, tid, refs, m)]
                ELSE arr[i],
                Count(refs, <<tid, arr[i].id>>), m)]

\* the rewriting part of apply(): every stylesheet mediaRules points into
applyWith(st, heap, m) ==
  [mediaMap |-> m,
   trees |-> [t \in 1..Len(heap) |-> rewriteRules(heap[t], t, st.mediaRules, m)]]

\* apply(): the media object, then the replacements
apply(st, heap) == applyWith(st, heap, resolve(st.breakpoints, st.options))

-----------------------------------------------------------------------------
(* lib/breakpoints.js, the second shipped file: px points only, no options,  *)
(* no custom breakpoints, empty rules pruned, a media selector rewritten     *)
(* only when it is a name, and no reset of the locals.                       *)

getTypeAndPointLib(value) ==
  LET parts == split(value)
  IN IF Len(parts) # 2 THEN [err |-> FormatError]
     ELSE IF isType(parts[1]) /\ isPointPx(parts[2])
       THEN [err |-> NoError, type |-> parts[1], point |-> parts[2]]
     ELSE IF isType(parts[2]) /\ isPointPx(parts[1])
       THEN [err |-> NoError, type |-> parts[2], point |-> parts[1]]
     ELSE [err |-> MissingError]

PointErrorLib(type, point) ==
  "A breakpoint at: " \o type \o " " \o IntToString(point) \o "px is already defined!"

\* breakpoint[breakpoint.type] === point, on numbers
hasBreakpointWithTypeAndPointLib(bps, type, point) ==
  \E i \in 1..Len(bps) :
    bps[i].type = type /\ point # NaN /\ Get(bps[i], bps[i].type) = point

\* set() once name and type are in lower case and the point is a number
setLibParsed(st, name, type, point) ==
  IF hasBreakpointWithName(st.breakpoints, name) THEN Throw(st, NameError(name))
  ELSE IF hasBreakpointWithTypeAndPointLib(st.breakpoints, type, point)
    THEN Throw(st, PointErrorLib(type, point))
  ELSE [st EXCEPT !.breakpoints = Append(@, (type :> point) @@ [name |-> name, type |-> type])]

setLib(st, name0, type0, point0) ==
  setLibParsed(st, toLowerCase(name0), toLowerCase(type0),
               parseInt(Sub(point0, 1, Len(point0) - 2)))

\* the callback breakpoint() hands to getTypeAndPoint
breakpointLibCallback(st, name, result) ==
  IF result.err # NoError THEN Throw(st, ParseError(name, result.err))
  ELSE setLib(st, name, result.type, result.point)

breakpointLib(st, property, value) ==
  breakpointLibCallback(st, getBreakpointName(property), getTypeAndPointLib(value))

RECURSIVE visitLibFrom(_, _, _)
RECURSIVE visitLibRemove(_, _, _)

\* declarations.splice(i--, 1) after breakpoint() left the locals st1
visitLibRemove(declarations, i, st1) ==
  IF st1.err # NoError THEN [declarations |-> declarations, st |-> st1]
  ELSE visitLibFrom(RemoveAt(declarations, i), i, st1)

visitLibFrom(declarations, i, st) ==
  IF i > Len(declarations) THEN [declarations |-> declarations, st |-> st]
  ELSE IF ~isBreakpoint(declarations[i].property) THEN visitLibFrom(declarations, i + 1, st)
  ELSE visitLibRemove(declarations, i,
                      breakpointLib(st, declarations[i].property, declarations[i].value))

visitLib(declarations, st) == visitLibFrom(declarations, 1, st)

\* arr.forEach over the len elements arr had at the start, with arr.splice(index, 1)
\* inside the loop: the indexes past the array's end are skipped
RECURSIVE rulesLibFrom(_, _, _, _, _)
RECURSIVE rulesLibChildren(_, _, _, _, _)
RECURSIVE rulesLibMedia(_, _, _, _, _, _)
RECURSIVE rulesLibVisit(_, _, _, _, _, _)
RECURSIVE rulesLibPrune(_, _, _, _, _, _)

\* if (!rule.declarations.length) arr.splice(index, 1); visited is what visit() left
rulesLibPrune(arr, index, len, rule, visited, tid) ==
  rulesLibFrom(IF visited.st.err = NoError /\ visited.declarations = <<>>
                 THEN RemoveAt(arr, index)
               ELSE [arr EXCEPT ![index] = [rule EXCEPT !.declarations = visited.declarations]],
               index + 1, len, visited.st, tid)

\* if (rule.declarations) { visit(rule.declarations); ... }
rulesLibVisit(arr, index, len, rule, st, tid) ==
  IF st.err = NoError /\ HasDeclarations(rule)
    THEN rulesLibPrune(arr, index, len, rule, visitLib(rule.declarations, st), tid)
  ELSE rulesLibFrom([arr EXCEPT ![index] = rule], index + 1, len, st, tid)

\* if (rule.media) media(rule); sub is what rules(rule.rules) left
rulesLibMedia(arr, index, len, rule, sub, tid) ==
  rulesLibVisit(arr, index, len,
                IF HasRules(rule) THEN [rule EXCEPT !.rules = sub.arr] ELSE rule,
                IF sub.st.err = NoError /\ HasMedia(rule) THEN media(sub.st, <<tid, rule.id>>)
                ELSE sub.st,
                tid)

\* if (rule.rules) rules(rule.rules)
rulesLibChildren(arr, index, len, st, tid) ==
  rulesLibMedia(arr, index, len, arr[index],
                IF HasRules(arr[index])
                  THEN rulesLibFrom(arr[index].rules, 1, Len(arr[index].rules), st, tid)
                ELSE [arr |-> <<>>, st |-> st],
                tid)

rulesLibFrom(arr, index, len, st, tid) ==
  IF index > len \/ st.err # NoError THEN [arr |-> arr, st |-> st]
  ELSE IF index > Len(arr) THEN rulesLibFrom(arr, index + 1, len, st, tid)
  ELSE rulesLibChildren(arr, index, len, st, tid)

rulesLib(arr, st, tid) == rulesLibFrom(arr, 1, Len(arr), st, tid)

\* one round of the max loop: lower is the bound after the point below (read when
\* i > 0 only), upper the breakpoint's own point
maxRoundLib(m, name, i, lower, upper) ==
  PutMore(IF i > 1
            THEN Put(Put(PutMore(Put(m, name, "only screen"), name, lower),
                         name \o "-and-down", "only screen" \o upper),
                     name \o "-and-up", "only screen" \o lower)
          ELSE Put(m, name, "only screen"),
          name, upper)

RECURSIVE maxLoopLib(_, _, _)
maxLoopLib(m, maxPoints, i) ==
  IF i > Len(maxPoints) THEN m
  ELSE maxLoopLib(
         maxRoundLib(m, maxPoints[i].name, i,
                     " and (min-device-width: " \o IntToString(Plus(maxPoints[i - 1].max, 1)) \o "px)",
                     " and (max-device-width: " \o IntToString(maxPoints[i].max) \o "px)"),
         maxPoints, i + 1)

\* one round of the min loop: lower is the breakpoint's own point, upper the bound
\* before the point above (read when there is one only)
minRoundLib(m, name, last, lower, upper) ==
  IF last THEN PutMore(Put(m, name, "only screen"), name, lower)
  ELSE Put(Put(PutMore(PutMore(Put(m, name, "only screen"), name, lower), name, upper),
               name \o "-and-up", "only screen" \o lower),
           name \o "-and-down", "only screen" \o upper)

RECURSIVE minLoopLib(_, _, _)
minLoopLib(m, minPoints, j) ==
  IF j < 1 THEN m
  ELSE minLoopLib(
         minRoundLib(m, minPoints[j].name, j = Len(minPoints),
                     " and (min-device-width: " \o IntToString(minPoints[j].min) \o "px)",
                     " and (max-device-width: " \o IntToString(Plus(minPoints[j + 1].min, -1)) \o "px)"),
         minPoints, j - 1)

minLoopLibOver(m, minPoints) == minLoopLib(m, minPoints, Len(minPoints))

resolveLib(bps) == minLoopLibOver(maxLoopLib(<<>>, Filter(bps, "max"), 1), Filter(bps, "min"))

\* if (media[name]) rule.media = media[name], once for each time mediaRules holds the rule
rewriteLibOnce(text, m, name) == IF HasKey(m, name) THEN GetKey(m, name) ELSE text

RECURSIVE rewriteLib(_, _, _)
rewriteLib(text, m, times) ==
  IF times = 0 THEN text
  ELSE rewriteLib(rewriteLibOnce(text, m, toLowerCase(text)), m, times - 1)

rewriteRuleLib(rule, times, m) ==
  IF times > 0 THEN [rule EXCEPT !.media = rewriteLib(@, m, times)] ELSE rule

RECURSIVE rewriteRulesLib(_, _, _, _)
rewriteRulesLib(arr, tid, refs, m) ==
  [i \in 1..Len(arr) |->
    rewriteRuleLib(IF HasRules(arr[i])
                     THEN [arr[i] EXCEPT !.rules = rewriteRulesLib(@, tid, refs, m)]
                   ELSE arr[i],
                   Count(refs, <<tid, arr[i].id>>), m)]

\* the rewriting part of apply(): every stylesheet mediaRules points into
applyLibWith(st, heap, m) ==
  [mediaMap |-> m,
   trees |-> [t \in 1..Len(heap) |-> rewriteRulesLib(heap[t], t, st.mediaRules, m)]]

applyLib(st, heap) == applyLibWith(st, heap, resolveLib(st.breakpoints))

-----------------------------------------------------------------------------
(* The plugin: module.exports of each file, one call per step *)

\* clean(): the locals a call of the plugin starts from
Cleaned == [mediaRules |-> <<>>, breakpoints |-> <<>>, options |-> [o \in {} |-> FALSE],
            err |-> NoError]

\* the locals as the last call left them
Locals == [mediaRules |-> mediaRules, breakpoints |-> breakpoints, options |-> options,
           err |-> NoError]

\* what a call leaves behind: walked.st are the locals after rules(style.rules), and
\* applied the outcome of apply(), read when the walk did not throw
Finish(style, walked, applied) ==
  /\ inputs' = Append(inputs, style)
  /\ mediaRules' = walked.st.mediaRules
  /\ breakpoints' = walked.st.breakpoints
  /\ options' = walked.st.options
  /\ thrown' = walked.st.err
  /\ IF walked.st.err # NoError
       THEN trees' = Append(trees, walked.arr) /\ mediaMap' = <<>>
     ELSE trees' = applied.trees /\ mediaMap' = applied.mediaMap

\* apply() after rules(style.rules)
Walked(style, walked) == Finish(style, walked, apply(walked.st, Append(trees, walked.arr)))

\* module.exports = function (style) { clean(); rules(style.rules); apply(); }
Transform(style) == Walked(style, rules(style, Cleaned, Len(trees) + 1))

WalkedLib(style, walked) ==
  Finish(style, walked, applyLib(walked.st, Append(trees, walked.arr)))

\* lib/breakpoints.js: module.exports = function (style) { rules(style.rules); apply(); }
TransformLib(style) == WalkedLib(style, rulesLib(style, Locals, Len(trees) + 1))

Init ==
  /\ trees = <<>>
  /\ inputs = <<>>
  /\ mediaRules = <<>>
  /\ breakpoints = <<>>
  /\ options = [o \in {} |-> FALSE]
  /\ mediaMap = <<>>
  /\ thrown = NoError

-----------------------------------------------------------------------------
(* Stylesheets the plugin is called with *)

MaxCalls == 2
MaxDecls == 3
MaxWords == 3

Decl(property, value) == [property |-> property, value |-> value]
StyleRule(id, declarations) == [id |-> id, declarations |-> declarations]
MediaRule(id, text, children) == [id |-> id, media |-> text, rules |-> children]
Color == Decl("color", "#c00")
\* @media text { body { color: #c00 } }
Media(id, text) == MediaRule(id, text, <<StyleRule(id + 1, <<Color>>)>>)

Names == <<"palm", "tab", "desk", "wide", "huge", "giga">>
Kinds == {"min", "max"}
PointTexts == {"340", "341", "700"}
Units == {"px", "em"}

\* :root { breakpoint-<name i>: <kind i> <point i><unit>; .. } and an @media rule for
\* every name and compound name
ResolverSheet(ds, unit) ==
  LET k == Len(ds)
      prop(i) == (IF i = 2 THEN "var-" ELSE "") \o "breakpoint-" \o Names[i]
      root == StyleRule(1, [i \in 1..k |-> Decl(prop(i), ds[i][1] \o " " \o ds[i][2] \o unit)])
      sel(n) == LET i == ((n - 1) \div 3) + 1
                    c == (n - 1) % 3
                IN Names[i] \o (IF c = 0 THEN "" ELSE IF c = 1 THEN "-and-up" ELSE "-and-down")
  IN <<root>> \o [n \in 1..(3 * k) |-> Media(2 * n, sel(n))]

ResolverSheets ==
  { ResolverSheet(ds, unit) :
      ds \in UNION { [1..k -> Kinds \X PointTexts] : k \in 1..MaxDecls }, unit \in Units }

\* a selector: up to MaxWords words with one space between them (an empty word
\* makes a leading, a trailing or a double space)
Words == {"", "mobile", "MOBILE", "abc-mobile", "mobile-up", "and", "landscape"}

RECURSIVE Join(_, _)
Join(ws, i) == IF i > Len(ws) THEN "" ELSE (IF i > 1 THEN " " ELSE "") \o ws[i] \o Join(ws, i + 1)

Selectors == { Join(ws, 1) : ws \in UNION { [1..k -> Words] : k \in 1..MaxWords } }

\* README, example 5, with the selector varied
RewriterSheet(selector) ==
  << StyleRule(1, << Decl("breakpoint-mobile", "max 600px"),
                     Decl("breakpoint-landscape", "(orientation: landscape)") >>),
     Media(2, selector) >>

RewriterSheets == { RewriterSheet(selector) : selector \in Selectors }

\* one breakpoint declaration with the value varied: two tokens in either order, and
\* values of other shapes
TypeTokens == {"min", "max", "big"}
PointTokens == {"1000px", "80em", "1.5rem", "340", "10pt", "5.px"}
OtherValues == { "min  1000px", "max\t340px", "(orientation: landscape)", "max",
                 "screen and (max-width: 80em)", "max 340 px", "MAX 340px", "max 1.2.3px" }
ValueTexts ==
  { t \o " " \o p : t \in TypeTokens, p \in PointTokens }
    \cup { p \o " " \o t : t \in TypeTokens, p \in PointTokens } \cup OtherValues

ClassifierSheet(value) ==
  << StyleRule(1, << Decl("breakpoint-desk", value), Color >>),
     Media(2, "desk"), Media(4, "desk-and-up") >>

ClassifierSheets == { ClassifierSheet(value) : value \in ValueTexts }

\* README, example 4, cut to two breakpoints, with option declarations at four places:
\* first or last in :root, inside an @media rule, or in a rule after the @media rules
OptionProperties == {"breakpoints-device", "var-breakpoints-device", "breakpoints-use-only"}
OptionTexts == {"1", "true", "yes", "TRUE", "Yes", "false", "no", "on"}
Places == 1..4

OptionSheet(decls) ==
  LET At(place) == IF place \in DOMAIN decls THEN <<decls[place]>> ELSE <<>>
  IN << StyleRule(1, At(1) \o << Decl("breakpoint-palm", "max 340px"),
                                 Decl("breakpoint-desk", "min 1000px") >> \o At(2)),
        MediaRule(2, "palm", << StyleRule(3, At(3) \o <<Color>>) >>),
        Media(4, "desk"),
        StyleRule(6, <<Color>> \o At(4)) >>

OptionSheets ==
  { OptionSheet(place :> Decl(property, value)) :
      place \in Places, property \in OptionProperties, value \in OptionTexts }
    \cup { OptionSheet((1 :> Decl("breakpoints-device", v1)) @@ (4 :> Decl("var-breakpoints-device", v2))) :
             v1 \in OptionTexts, v2 \in OptionTexts }

OnceSheets == ResolverSheets \cup RewriterSheets \cup ClassifierSheets \cup OptionSheets

\* stylesheets for runs of several calls
RunSheets ==
  { << StyleRule(1, <<Decl("breakpoint-mobile", "max 340px")>>), Media(2, "mobile") >>,
    << StyleRule(1, <<Decl("breakpoint-mobile", "max 600px"), Decl("breakpoint-desk", "min 1000px")>>),
       Media(2, "mobile"), Media(4, "desk") >>,
    << Media(1, "mobile") >>,
    << Media(1, "tab"), StyleRule(3, <<Color>>) >>,
    << StyleRule(1, <<Decl("breakpoint-tab", "max 700px"), Color>>), Media(2, "tab"), Media(4, "mobile") >>,
    << StyleRule(1, <<Decl("breakpoint-palm", "max 340px"), Decl("breakpoint-tab", "max 700px")>>),
       Media(2, "tab-and-up") >>,
    << StyleRule(1, <<Decl("breakpoint-palm", "max 340px"), Decl("breakpoint-PALM", "min 1000px")>>),
       Media(2, "palm") >>,
    << Media(1, "mobile"), StyleRule(3, <<Decl("var-breakpoint-mobile", "max 5.px")>>) >>,
    << StyleRule(1, <<Decl("breakpoints-device", "true"), Color>>), Media(2, "mobile"), Media(4, "desk") >>,
    << StyleRule(1, <<Decl("breakpoint-desk", "min 1200px")>>),
       MediaRule(2, "desk", <<StyleRule(3, <<Decl("breakpoint-wide", "min 1600px"), Color>>)>>),
       Media(4, "desk-and-up") >>,
    << StyleRule(1, <<Decl("breakpoint-mobile", "(orientation: landscape)")>>), Media(2, "mobile and tab") >>,
    << StyleRule(1, <<Color>>) >> }

\* one call on a stylesheet of the wide families
Once == trees = <<>> /\ \E style \in OnceSheets : Transform(style)
SpecOnce == Init /\ [][Once]_vars

\* up to MaxCalls calls of the plugin
Next == Len(trees) < MaxCalls /\ \E style \in RunSheets : Transform(style)
Spec == Init /\ [][Next]_vars

\* up to MaxCalls calls of lib/breakpoints.js
NextLib == Len(trees) < MaxCalls /\ \E style \in RunSheets : TransformLib(style)
SpecLib == Init /\ [][NextLib]_vars

-----------------------------------------------------------------------------
(* What the properties below read off a state *)

Called == Len(trees) > 0
Succeeded == Called /\ thrown = NoError
\* the stylesheet of the last call, after it and as it was passed
Last == trees[Len(trees)]
LastIn == inputs[Len(inputs)]

\* every rule of a stylesheet, children after their parent
RECURSIVE AllRules(_)
AllRules(arr) ==
  IF arr = <<>> THEN <<>>
  ELSE <<Head(arr)>> \o (IF HasRules(Head(arr)) THEN AllRules(Head(arr).rules) ELSE <<>>)
       \o AllRules(Tail(arr))

RuleSet(arr) == LET all == AllRules(arr) IN { all[i] : i \in 1..Len(all) }
MediaIds(arr) == { r.id : r \in { x \in RuleSet(arr) : HasMedia(x) } }
RuleById(arr, id) == CHOOSE r \in RuleSet(arr) : r.id = id
MediaText(arr, id) == RuleById(arr, id).media

\* every declaration of a stylesheet in document order (a rule's children before
\* its own declarations)
RECURSIVE AllDecls(_)
AllDecls(arr) ==
  IF arr = <<>> THEN <<>>
  ELSE (IF HasRules(Head(arr)) THEN AllDecls(Head(arr).rules) ELSE <<>>)
       \o (IF HasDeclarations(Head(arr)) THEN Head(arr).declarations ELSE <<>>)
       \o AllDecls(Tail(arr))

\* text with every word (a longest run without whitespace) that is a name of m, in
\* any case, replaced by the name's value, and everything else kept
RECURSIVE WholeWordsFrom(_, _, _)
WholeWordsFrom(text, i, m) ==
  IF i > Len(text) THEN ""
  ELSE IF IsSpace(Ch(text, i)) THEN Ch(text, i) \o WholeWordsFrom(text, i + 1, m)
  ELSE LET e == WordEnd(text, i)
           word == Sub(text, i, e)
           name == toLowerCase(word)
       IN (IF HasKey(m, name) THEN GetKey(m, name) ELSE word) \o WholeWordsFrom(text, e + 1, m)

WholeWords(text, m) == WholeWordsFrom(text, 1, m)

-----------------------------------------------------------------------------
\* C1: after a transform, every collected media rule's selector is its original
\* selector with every whitespace-delimited occurrence of a resolved name, in any
\* case, replaced by the name's resolved string, and all other text unchanged.
C1_EveryWholeWordReplaced ==
  Succeeded =>
    \A id \in MediaIds(LastIn) : MediaText(Last, id) = WholeWords(MediaText(LastIn, id), mediaMap)

-----------------------------------------------------------------------------
(* The typed breakpoints as the stylesheet declares them, read from the text *)
(* of the declarations: <kind> <digits><unit>                                *)

IsIntegerPoint(p) ==
  LET e == DigitRunEnd(p, 1) IN e >= 1 /\ Sub(p, e + 1, Len(p)) \in {"px", "em", "rem"}

IsIntegerTyped(value) ==
  LET parts == split(value)
  IN Len(parts) = 2 /\ parts[1] \in Kinds /\ IsIntegerPoint(parts[2])

BreakpointDecls(arr) ==
  LET all == AllDecls(arr)
  IN { all[i] : i \in { j \in 1..Len(all) : isBreakpoint(all[j].property) } }

\* [name, kind, n, unit] of a declaration breakpoint-<name>: <kind> <n><unit>
DeclaredPoint(decl) ==
  LET parts == split(decl.value)
      e == DigitRunEnd(parts[2], 1)
  IN [name |-> toLowerCase(getBreakpointName(decl.property)), kind |-> parts[1],
      n |-> DigitsValue(Sub(parts[2], 1, e)), unit |-> Sub(parts[2], e + 1, Len(parts[2]))]

\* the last stylesheet declares typed breakpoints only, with integer points that
\* differ within each kind
IntegerSheet == \A decl \in BreakpointDecls(LastIn) : IsIntegerTyped(decl.value)
Declared == { DeclaredPoint(decl) : decl \in BreakpointDecls(LastIn) }
DistinctPoints ==
  /\ Cardinality(Declared) = Cardinality(BreakpointDecls(LastIn))
  /\ \A a \in Declared, b \in Declared : (a # b /\ a.kind = b.kind) => a.n # b.n

Below(d) == { c \in Declared : c.kind = d.kind /\ c.n < d.n }
Above(d) == { c \in Declared : c.kind = d.kind /\ c.n > d.n }
Prev(d) == CHOOSE c \in Below(d) : \A x \in Below(d) : x.n <= c.n
Succ(d) == CHOOSE c \in Above(d) : \A x \in Above(d) : x.n >= c.n

None == ""
PointText(d) == NatToString(d.n) \o d.unit
\* the point of d plus, or minus, the tie-break delta: 1 for px, 0.0001 for em and rem
JustAbove(d) ==
  IF d.unit = "px" THEN NatToString(d.n + 1) \o "px" ELSE NatToString(d.n) \o ".0001" \o d.unit
JustBelow(d) ==
  IF d.unit = "px" THEN NatToString(d.n - 1) \o "px" ELSE NatToString(d.n - 1) \o ".9999" \o d.unit

\* q is <media type> [and (min-<feature>: lower)] [and (max-<feature>: upper)]
IsQuery(q, lower, upper) ==
  \E type \in {"screen", "only screen"}, feature \in {"-width", "-device-width"} :
    q = type \o (IF lower = None THEN "" ELSE " and (min" \o feature \o ": " \o lower \o ")")
             \o (IF upper = None THEN "" ELSE " and (max" \o feature \o ": " \o upper \o ")")

Resolved(name) == GetKey(mediaMap, name)

\* C2: with distinct points within each kind, in whatever order they were declared,
\* a max breakpoint resolves to the upper bound at its own point and, only when a
\* lower max breakpoint exists, the lower bound just above the next lower one; a min
\* breakpoint resolves to the lower bound at its own point and, only when a higher
\* min breakpoint exists, the upper bound just below the next higher one.
C2_BaseNames ==
  (Succeeded /\ IntegerSheet /\ DistinctPoints) =>
    \A d \in Declared :
      IF d.kind = "max"
        THEN IsQuery(Resolved(d.name),
                     IF Below(d) = {} THEN None ELSE JustAbove(Prev(d)), PointText(d))
      ELSE IsQuery(Resolved(d.name),
                   PointText(d), IF Above(d) = {} THEN None ELSE JustBelow(Succ(d)))

\* C2 witness: three max breakpoints declared 700, 340, 341, resolved in sorted order
C2_Witness ==
  /\ Succeeded /\ IntegerSheet /\ DistinctPoints
  /\ Len(breakpoints) = 3
  /\ \A i \in 1..3 : breakpoints[i].type = "max" /\ breakpoints[i].unit = "px"
  /\ breakpoints[1].value > breakpoints[3].value /\ breakpoints[3].value > breakpoints[2].value
  /\ IsQuery(Resolved(breakpoints[1].name), "342px", "700px")
  /\ IsQuery(Resolved(breakpoints[2].name), None, "340px")


\* the media rules of the last stylesheet whose selector was the name `key` of the
\* media object now hold the name's resolved string
RewrittenTo(key) ==
  \A id \in MediaIds(LastIn) :
    (MediaText(LastIn, id) = key /\ HasKey(mediaMap, key)) => MediaText(Last, id) = Resolved(key)

Up(d) == d.name \o "-and-up"
Down(d) == d.name \o "-and-down"

\* what C3 says of the compounds every tier has, and C3 amended of those only the
\* tiers with a lower (max) or higher (min) neighbour have
CompoundNames(always) ==
  \A d \in Declared :
    /\ IF d.kind = "max"
         THEN /\ HasKey(mediaMap, Down(d)) <=> (always \/ Below(d) # {})
              /\ HasKey(mediaMap, Down(d)) => IsQuery(Resolved(Down(d)), None, PointText(d))
              /\ HasKey(mediaMap, Up(d)) <=> Below(d) # {}
              /\ HasKey(mediaMap, Up(d)) => IsQuery(Resolved(Up(d)), JustAbove(Prev(d)), None)
       ELSE /\ HasKey(mediaMap, Up(d)) <=> (always \/ Above(d) # {})
            /\ HasKey(mediaMap, Up(d)) => IsQuery(Resolved(Up(d)), PointText(d), None)
            /\ HasKey(mediaMap, Down(d)) <=> Above(d) # {}
            /\ HasKey(mediaMap, Down(d)) => IsQuery(Resolved(Down(d)), None, JustBelow(Succ(d)))
    /\ RewrittenTo(Up(d))
    /\ RewrittenTo(Down(d))

\* C3: every max breakpoint, the smallest included, has <name>-and-down (its own upper
\* bound) and has <name>-and-up exactly when a lower max breakpoint exists; every min
\* breakpoint, the largest included, has <name>-and-up (its own lower bound) and has
\* <name>-and-down exactly when a higher min breakpoint exists; a selector equal to a
\* defined compound name is rewritten to its string.
C3_CompoundNamesOfEveryTier ==
  (Succeeded /\ IntegerSheet /\ DistinctPoints) => CompoundNames(TRUE)

\* C3 amended: <name>-and-down and <name>-and-up of a max breakpoint are both defined
\* exactly when a lower max breakpoint exists, those of a min breakpoint exactly when
\* a higher min breakpoint exists, with the strings C3 gives; a selector equal to a
\* defined compound name is rewritten to its string.
C3_CompoundNames ==
  (Succeeded /\ IntegerSheet /\ DistinctPoints) => CompoundNames(FALSE)

\* C3 witness: max 340px before max 700px and min 341px, none with a compound name but
\* the higher max, whose @media rules were rewritten
C3_Witness ==
  /\ Succeeded /\ IntegerSheet /\ DistinctPoints
  /\ Declared = { [name |-> "palm", kind |-> "max", n |-> 700, unit |-> "px"],
                  [name |-> "tab", kind |-> "max", n |-> 340, unit |-> "px"],
                  [name |-> "desk", kind |-> "min", n |-> 341, unit |-> "px"] }
  /\ HasKey(mediaMap, "palm-and-down") /\ HasKey(mediaMap, "palm-and-up")
  /\ ~HasKey(mediaMap, "tab-and-down") /\ ~HasKey(mediaMap, "desk-and-up")
  /\ \E id \in MediaIds(LastIn) :
       MediaText(LastIn, id) = "palm-and-up" /\ IsQuery(MediaText(Last, id), "341px", None)
  /\ \E id \in MediaIds(LastIn) :
       MediaText(LastIn, id) = "tab-and-down" /\ MediaText(Last, id) = "tab-and-down"


-----------------------------------------------------------------------------
(* Options as the stylesheet declares them *)

IsOptionDecl(decl, key) ==
  decl.property \in {"breakpoints-" \o key, "var-breakpoints-" \o key}

\* the last declaration of option `key` in the last stylesheet has a true value
OptionSet(key) ==
  LET all == AllDecls(LastIn)
      at == { i \in 1..Len(all) : IsOptionDecl(all[i], key) }
  IN at # {} /\ toLowerCase(all[CHOOSE i \in at : \A j \in at : j <= i].value) \in {"1", "true", "yes"}

\* the names of the media object that apply() generated from the typed breakpoints
TypedNames ==
  LET typed == { breakpoints[i].name : i \in { j \in 1..Len(breakpoints) : breakpoints[j].type # "custom" } }
      custom == { breakpoints[i].name : i \in { j \in 1..Len(breakpoints) : breakpoints[j].type = "custom" } }
  IN { name \in typed \cup { n \o "-and-up" : n \in typed } \cup { n \o "-and-down" : n \in typed } :
         HasKey(mediaMap, name) /\ name \notin custom }

\* C4: every query generated for a typed breakpoint name or compound name begins with
\* `only screen` when the use-only option was set to a true value in the run, and with
\* `screen` otherwise.
C4_MediaTypePrefix ==
  Succeeded =>
    \A name \in TypedNames :
      StartsWith(Resolved(name), IF OptionSet("use-only") THEN "only screen and " ELSE "screen and ")

UsesDeviceWidth(q) ==
  /\ Contains(q, "(min-device-width: ") \/ Contains(q, "(max-device-width: ")
  /\ ~Contains(q, "(min-width: ") /\ ~Contains(q, "(max-width: ")
UsesWidth(q) ==
  /\ Contains(q, "(min-width: ") \/ Contains(q, "(max-width: ")
  /\ ~Contains(q, "(min-device-width: ") /\ ~Contains(q, "(max-device-width: ")

\* C5: every generated typed query uses min/max-device-width when the last visited
\* breakpoints-device or var-breakpoints-device declaration of the stylesheet has one
\* of the values 1, true, yes in any case, and min/max-width otherwise, wherever the
\* option is declared; no option declaration stays in its rule.
C5_DeviceOption ==
  Succeeded =>
    /\ \A name \in TypedNames :
         IF OptionSet("device") THEN UsesDeviceWidth(Resolved(name)) ELSE UsesWidth(Resolved(name))
    /\ \A i \in 1..Len(AllDecls(Last)) : ~isBreakpointsOption(AllDecls(Last)[i].property)

\* C5 witness: breakpoints-device: no in :root, then var-breakpoints-device: Yes in the
\* last rule of the stylesheet, and device-width queries
C5_Witness ==
  /\ Succeeded /\ OptionSet("device")
  /\ AllDecls(LastIn)[1] = Decl("breakpoints-device", "no")
  /\ AllDecls(LastIn)[Len(AllDecls(LastIn))] = Decl("var-breakpoints-device", "Yes")
  /\ Resolved("palm") = MediaType \o " and (max-device-width: 340px)"
  /\ MediaText(Last, 4) = MediaType \o " and (min-device-width: 1000px)"
  /\ Len(AllDecls(Last)) = Len(AllDecls(LastIn)) - 4


-----------------------------------------------------------------------------
(* The widths a resolved query denotes, in whole px *)

NoBound == 0 - 1
\* the numbers a bound of the last stylesheet's queries can be, and the widths tried
BoundValues == UNION { {d.n - 1, d.n, d.n + 1} : d \in Declared }
Widths == UNION { (d.n - 2)..(d.n + 2) : d \in Declared }
BoundText(b) == IF b = NoBound THEN None ELSE NatToString(b) \o "px"

\* the <<lower, upper>> bounds the text of q states
BoundsOf(q) ==
  { b \in (BoundValues \cup {NoBound}) \X (BoundValues \cup {NoBound}) :
      IsQuery(q, BoundText(b[1]), BoundText(b[2])) }

Satisfies(w, q) ==
  \E b \in BoundsOf(q) : (b[1] = NoBound \/ w >= b[1]) /\ (b[2] = NoBound \/ w <= b[2])

AllPx == \A d \in Declared : d.unit = "px"
Tier(kind) == { d \in Declared : d.kind = kind }
Hits(w, kind) == { d \in Tier(kind) : Satisfies(w, Resolved(d.name)) }

\* C6: with distinct px points, no width satisfies the resolved queries of two
\* breakpoint names and every width satisfies the resolved query of one.
C6_PartitionOfTheLine ==
  (Succeeded /\ IntegerSheet /\ DistinctPoints /\ AllPx /\ Declared # {}
     /\ \A a \in Declared, b \in Declared : a # b => a.n # b.n) =>
    \A w \in Widths : Cardinality(Hits(w, "max") \cup Hits(w, "min")) = 1

\* C6 amended: with px points distinct within each kind, every whole width up to the
\* largest max point satisfies the query of exactly one max breakpoint and no width
\* above it satisfies any; every whole width from the smallest min point on satisfies
\* the query of exactly one min breakpoint and no width below it satisfies any.
C6_TiersPartition ==
  (Succeeded /\ IntegerSheet /\ DistinctPoints /\ AllPx) =>
    /\ \A d \in Declared : BoundsOf(Resolved(d.name)) # {}
    /\ \A w \in Widths :
         /\ Cardinality(Hits(w, "max")) = IF \E d \in Tier("max") : w <= d.n THEN 1 ELSE 0
         /\ Cardinality(Hits(w, "min")) = IF \E d \in Tier("min") : w >= d.n THEN 1 ELSE 0

\* C6 witness: max 341px, max 340px and min 700px: 341 is the one width of the higher
\* max tier, and the widths 342 to 699 are in no tier
C6_Witness ==
  /\ Succeeded /\ IntegerSheet /\ DistinctPoints /\ AllPx
  /\ Declared = { [name |-> "palm", kind |-> "max", n |-> 341, unit |-> "px"],
                  [name |-> "tab", kind |-> "max", n |-> 340, unit |-> "px"],
                  [name |-> "desk", kind |-> "min", n |-> 700, unit |-> "px"] }
  /\ Hits(341, "max") = { [name |-> "palm", kind |-> "max", n |-> 341, unit |-> "px"] }
  /\ Hits(340, "max") = { [name |-> "tab", kind |-> "max", n |-> 340, unit |-> "px"] }
  /\ Hits(342, "max") \cup Hits(342, "min") = {}
  /\ Hits(700, "min") = Tier("min")


-----------------------------------------------------------------------------
Typed == { i \in DOMAIN breakpoints : breakpoints[i].type \in Kinds }
NamedInRegistry(name) == \E i \in DOMAIN breakpoints : breakpoints[i].name = name

\* two declarations of the last stylesheet, under different names, of the same kind
\* at the same point
SamePointDeclared ==
  \E a \in Declared, b \in Declared :
    a.name # b.name /\ a.kind = b.kind /\ a.n = b.n /\ a.unit = b.unit

\* C7: a run that visits two typed breakpoints of different names with the same kind
\* and point raises the duplicate-point error naming the kind and the point, and the
\* registry never holds two typed breakpoints with the same kind and value.
C7_DuplicatePointError ==
  Called =>
    /\ \A i \in Typed, j \in Typed :
         (i # j /\ breakpoints[i].type = breakpoints[j].type
            /\ breakpoints[i].unit = breakpoints[j].unit)
           => breakpoints[i].value # breakpoints[j].value
    /\ (IntegerSheet /\ Cardinality(Declared) = Cardinality(BreakpointDecls(LastIn))
          /\ SamePointDeclared)
         => \E d \in Declared : thrown = PointError(d.kind, PointText(d))

-----------------------------------------------------------------------------
\* a value <point> <kind>, the typed syntax with its tokens in the other order
IsReversedTyped(value) ==
  LET parts == split(value)
  IN Len(parts) = 2 /\ parts[2] \in Kinds /\ IsIntegerPoint(parts[1])

Reversed(value) == LET parts == split(value) IN parts[2] \o " " \o parts[1]

\* C8: a breakpoint declared as <number><unit> <min|max> is registered as the typed
\* breakpoint that <min|max> <number><unit> declares, and resolves to the same query.
C8_EitherTokenOrder ==
  Called =>
    \A decl \in BreakpointDecls(LastIn) :
      IsReversedTyped(decl.value) =>
        LET d == DeclaredPoint([decl EXCEPT !.value = Reversed(decl.value)])
        IN /\ thrown = NoError
           /\ \E i \in Typed :
                /\ breakpoints[i].name = d.name /\ breakpoints[i].type = d.kind
                /\ breakpoints[i].value = d.n * Scale /\ breakpoints[i].unit = d.unit
           /\ HasKey(mediaMap, d.name)
           /\ \/ IsQuery(Resolved(d.name), PointText(d), None)
              \/ IsQuery(Resolved(d.name), None, PointText(d))

-----------------------------------------------------------------------------
\* the first call of each file on a stylesheet: what it raises and the stylesheet
\* it leaves
FirstCall(style) ==
  LET walked == rules(style, Cleaned, 1)
  IN [thrown |-> walked.st.err,
      tree |-> IF walked.st.err # NoError THEN walked.arr
               ELSE apply(walked.st, <<walked.arr>>).trees[1]]

FirstCallLib(style) ==
  LET walked == rulesLib(style, Cleaned, 1)
  IN [thrown |-> walked.st.err,
      tree |-> IF walked.st.err # NoError THEN walked.arr
               ELSE applyLib(walked.st, <<walked.arr>>).trees[1]]

\* C9: after any sequence of calls of lib/breakpoints.js, every stylesheet is as a
\* first call on it leaves it, and the last call raised what a first call raises.
C9_NoLeak ==
  Called =>
    /\ thrown = FirstCallLib(LastIn).thrown
    /\ \A k \in DOMAIN trees : trees[k] = FirstCallLib(inputs[k]).tree

\* the same of the plugin that starts each call with clean()
NoLeakCleaned ==
  Called =>
    /\ thrown = FirstCall(LastIn).thrown
    /\ \A k \in DOMAIN trees : trees[k] = FirstCall(inputs[k]).tree

-----------------------------------------------------------------------------
\* two tokens, one of them min or max and the other not a point
IsMalformed(value) ==
  LET parts == split(value)
  IN /\ Len(parts) = 2
     /\ \/ parts[1] \in Kinds /\ ~ isPoint(parts[2])
        \/ parts[2] \in Kinds /\ ~ isPoint(parts[1])

\* C10: a breakpoint declaration with a malformed two-token value makes the call raise
\* the parse error that names the breakpoint, and no breakpoint of that name is
\* registered.
C10_ParseError ==
  Called =>
    \A decl \in BreakpointDecls(LastIn) :
      IsMalformed(decl.value) =>
        /\ \E message \in {FormatError, MissingError} :
             thrown = ParseError(getBreakpointName(decl.property), message)
        /\ ~ NamedInRegistry(toLowerCase(getBreakpointName(decl.property)))


-----------------------------------------------------------------------------
\* how often the last call collected the rule id of its stylesheet
Collected(id) == Count(mediaRules, <<Len(trees), id>>)

\* C11: a call that succeeds has collected every rule of its stylesheet that carries
\* a media selector, at any depth, exactly once, and has registered every breakpoint
\* declaration of every rule, also of a rule that follows a rule whose declarations
\* were all removed.
C11_WalkerComplete ==
  Succeeded =>
    /\ \A id \in MediaIds(LastIn) : Collected(id) = 1
    /\ \A decl \in BreakpointDecls(LastIn) :
         NamedInRegistry(toLowerCase(getBreakpointName(decl.property)))


-----------------------------------------------------------------------------
\* a property of the breakpoint pattern, and of the option pattern
IsBreakpointProperty(property) ==
  StartsWith(property, "breakpoint-") \/ StartsWith(property, "var-breakpoint-")
IsOptionProperty(property) ==
  StartsWith(property, "breakpoints-") \/ StartsWith(property, "var-breakpoints-")
Matching(decl) == IsBreakpointProperty(decl.property) \/ IsOptionProperty(decl.property)

\* the declarations of a list that match neither pattern, in their order
RECURSIVE Kept(_)
Kept(declarations) ==
  IF declarations = <<>> THEN <<>>
  ELSE (IF Matching(Head(declarations)) THEN <<>> ELSE <<Head(declarations)>>)
       \o Kept(Tail(declarations))

\* how many declarations of the last stylesheet have a breakpoint property
BreakpointCount ==
  LET all == AllDecls(LastIn)
  IN Cardinality({ i \in DOMAIN all : IsBreakpointProperty(all[i].property) })

DeclaringRules(arr) == { r \in RuleSet(arr) : HasDeclarations(r) }

\* C12: after a call that succeeds, every rule's declarations are those of its
\* original list that match neither the breakpoint nor the option pattern, in their
\* order and unchanged; every breakpoint declaration is in the registry once and
\* every option declaration has set its option.
C12_DeclarationsFiltered ==
  Succeeded =>
    LET all == AllDecls(LastIn)
        after == RuleSet(Last)
    IN /\ \A r \in DeclaringRules(LastIn) :
            \E kept \in after : kept.id = r.id /\ kept.declarations = Kept(r.declarations)
       /\ Len(breakpoints) = BreakpointCount
       /\ \A i \in DOMAIN all :
            /\ IsBreakpointProperty(all[i].property) =>
                 Cardinality({ k \in DOMAIN breakpoints :
                                 breakpoints[k].name = toLowerCase(getBreakpointName(all[i].property)) }) = 1
            /\ IsOptionProperty(all[i].property) => getOptionName(all[i].property) \in DOMAIN options

\* C12 witness: one rule lost all its entries, an option declaration and the two
\* adjacent breakpoint declarations after it, and another rule kept the declaration
\* before the option declaration that was its last entry
C12_Witness ==
  /\ Succeeded
  /\ \E r \in DeclaringRules(LastIn) :
       /\ Len(r.declarations) = 3
       /\ \A i \in 1..3 : Matching(r.declarations[i])
       /\ IsOptionProperty(r.declarations[1].property)
       /\ RuleById(Last, r.id).declarations = <<>>
  /\ \E r \in DeclaringRules(LastIn) :
       /\ Len(r.declarations) = 2
       /\ ~ Matching(r.declarations[1]) /\ Matching(r.declarations[2])
       /\ RuleById(Last, r.id).declarations = <<r.declarations[1]>>
  /\ Len(breakpoints) = 2

=============================================================================
